---- MODULE Spec2Model ----
(***************************************************************************)
(* A model of goa-jwtauth: the NamedKeystore (new.go), the token           *)
(* verification pipeline (internals.go, New in new.go), the Claims         *)
(* accessors (claims.go) and DefaultAuthorization                          *)
(* (default_authorization.go).                                             *)
(*                                                                         *)
(* The JWT codec (github.com/dgrijalva/jwt-go) and sync.RWMutex are        *)
(* libraries the package calls; they are modelled by what their calls do   *)
(* at the call sites in the package.                                       *)
(***************************************************************************)
EXTENDS Integers, Sequences, FiniteSets, TLC

VARIABLES
    alloc,      \* NamedKeystore.keys != nil
    keys,       \* NamedKeystore.keys: issuer -> stored key (a partial map)
    last,       \* the most recent completed call with its inputs and results
    az,         \* the most recent DefaultAuthorization evaluation (SpecAuthz)
    lock,       \* the RWMutex embedded in NamedKeystore (SpecConc)
    procs,      \* the goroutines calling the keystore concurrently (SpecConc)
    sk          \* the SimpleKeystore, once one is built (SpecSimple)

vars == <<alloc, keys, last, az, lock, procs, sk>>

-----------------------------------------------------------------------------
(* Bounds of the model *)

NKeyMat == 2        \* distinct key materials per key family
Now == 2            \* the clock reading (time.Now) while the requests are served

KeyMats == 1..NKeyMat

-----------------------------------------------------------------------------
(* Keys: Key is interface{}; a value is its dynamic type and its material *)

NoKey == [form |-> "absent", mat |-> 0]          \* a nil interface{}
MkKey(f, m) == [form |-> f, mat |-> m]

SupportedForms == {"bytes", "string", "rsaPub", "rsaPriv", "ecPub", "ecPriv"}
SupportedKeys == [form : SupportedForms, mat : KeyMats]
OtherKeys == [form : {"int"}, mat : KeyMats] \cup {NoKey}
AnyKeys == SupportedKeys \cup OtherKeys
StoredForms == {"bytes", "rsaPub", "ecPub"}

\* the keys one can sign a token with: an HMAC secret or a private key
SigningKeys == [form : {"bytes", "rsaPriv", "ecPriv"}, mat : KeyMats]

\* privateKey.Public() and []byte(string): the first switch of Trust
Convert(key) ==
    CASE key.form = "rsaPriv" -> MkKey("rsaPub", key.mat)
      [] key.form = "ecPriv" -> MkKey("ecPub", key.mat)
      [] key.form = "string" -> MkKey("bytes", key.mat)
      [] OTHER -> key

\* reflect.DeepEqual on two interface{} values: same dynamic type, same content
DeepEqual(a, b) == a.form = b.form /\ a.mat = b.mat

-----------------------------------------------------------------------------
(* NamedKeystore *)

TrustIssuers == {"", "alice"}
Issuers == {"", "alice", "42"}

EmptyMap == [i \in {} |-> NoKey]
MapPut(m, i, k) == [j \in (DOMAIN m) \cup {i} |-> IF j = i THEN k ELSE m[j]]
\* (a delete that empties the map)
MapClear(m, i) == [j \in {} |-> m[j]]
MapDelete(m, i) == [j \in (DOMAIN m) \ {i} |-> m[j]]

\* NamedKeystore.Get: the lookup under the read lock
KeystoreGet(al, m, issuer) ==
    IF al THEN (IF issuer \in DOMAIN m THEN m[issuer] ELSE NoKey) ELSE NoKey

\* NamedKeystore.Trust as one critical section: the map it leaves and its error
\* (a Trust that never reports a conflict and overwrites the entry)
TrustNeverConflicts(m, issuer, key) ==
    FALSE

TrustConflict(m, issuer, key) ==
    issuer \in DOMAIN m /\ ~DeepEqual(m[issuer], key)

\* (a Trust that checks the converted key but stores the caller's key)
TrustStoresArgument(m, issuer, key) ==
    IF TrustConflict(m, issuer, key)
    THEN [keys |-> m, err |-> "conflict"]
    ELSE IF Convert(key).form \in StoredForms
         THEN [keys |-> MapPut(m, issuer, key), err |-> "nil"]
         ELSE [keys |-> m, err |-> "unsupported"]

\* (a Trust that replaces the entry and then reports the conflict)
TrustReplacesThenFails(m, issuer, key) ==
    IF TrustConflict(m, issuer, key)
    THEN [keys |-> IF Convert(key).form \in StoredForms
                   THEN MapPut(m, issuer, Convert(key)) ELSE m,
          err |-> "conflict"]
    ELSE LET k == Convert(key)
         IN IF k.form \in StoredForms
            THEN [keys |-> MapPut(m, issuer, k), err |-> "nil"]
            ELSE [keys |-> m, err |-> "unsupported"]

TrustResult(m, issuer, key) ==
    IF TrustConflict(m, issuer, key)
    THEN [keys |-> m, err |-> "conflict"]
    ELSE LET k == Convert(key)
         IN IF k.form \in StoredForms
            THEN [keys |-> MapPut(m, issuer, k), err |-> "nil"]
            ELSE [keys |-> m, err |-> "unsupported"]

\* NamedKeystore.RevokeTrust: delete under the write lock; a nil map is left nil
RevokeResult(al, m, issuer) ==
    IF al THEN MapDelete(m, issuer) ELSE m

-----------------------------------------------------------------------------
(* SimpleKeystore and Load *)

\* no SimpleKeystore has been built
NoSimple == [built |-> FALSE, Key |-> NoKey]
\* &SimpleKeystore{Key: key}
SimpleKeystore(key) == [built |-> TRUE, Key |-> key]

\* []byte values that hold a PEM block: a PKCS1 RSA public key, a PKIX RSA or
\* ECDSA public key, and a block of any other type (a private key)
PemForms == {"pemPKCS1", "pemPKIXrsa", "pemPKIXec", "pemOther"}
LoadKeys == AnyKeys \cup [form : PemForms, mat : {1}]

\* parseKey: the public key of a PEM block, or an error
parseKey(key) ==
    CASE key.form = "pemPKCS1" -> [key |-> MkKey("rsaPub", key.mat), err |-> FALSE]
      [] key.form = "pemPKIXrsa" -> [key |-> MkKey("rsaPub", key.mat), err |-> FALSE]
      [] key.form = "pemPKIXec" -> [key |-> MkKey("ecPub", key.mat), err |-> FALSE]
      [] OTHER -> [key |-> NoKey, err |-> TRUE]

\* loadKey: the key to trust, or a panic
loadKey(key) ==
    CASE key.form \in {"ecPriv", "ecPub", "rsaPriv", "rsaPub"} -> [key |-> key, panic |-> FALSE]
      [] key.form = "bytes" -> [key |-> key, panic |-> FALSE]
      [] key.form \in PemForms ->
            LET parsed == parseKey(key)
            IN IF parsed.err THEN [key |-> NoKey, panic |-> TRUE]
               ELSE [key |-> parsed.key, panic |-> FALSE]
      [] OTHER -> [key |-> NoKey, panic |-> TRUE]

\* (a Trust that accepts every key)
SimpleTrustAlways(held, key) == "nil"

SimpleTrustErr(held, key) == IF DeepEqual(key, held) THEN "nil" ELSE "cannot trust additional keys"
SimpleGetKey(s, issuer) == s.Key

-----------------------------------------------------------------------------
(* Claim values: interface{} values held in a Claims map *)

MkVal(t, s, n, l) == [t |-> t, s |-> s, n |-> n, l |-> l]
NilVal == MkVal("nil", "", 0, <<>>)             \* nil, or an absent map entry
Str(s) == MkVal("str", s, 0, <<>>)              \* string
Num(n) == MkVal("num", "", n, <<>>)             \* a number (int, or float64 from JSON)
Stringer(s) == MkVal("stringer", s, 0, <<>>)    \* a fmt.Stringer whose String() is s
StrSlice(l) == MkVal("strslice", "", 0, l)      \* []string
Slice(l) == MkVal("slice", "", 0, l)            \* []interface{}

\* Typed values.  A number of an integer type holds its value in n; a number
\* of a floating-point type holds its value in halves (n = 3 is 1.5), so that
\* truncation is visible; a bool holds 1 for true and 0 for false.
IntKinds == {"int", "int32", "int64", "uint", "uint32", "uint64"}
FloatKinds == {"float32", "float64"}
NumKinds == IntKinds \cup FloatKinds
TypedNum(kind, n) == MkVal(kind, "", n, <<>>)
BoolVal(b) == MkVal("bool", "", IF b THEN 1 ELSE 0, <<>>)

\* int64(f) for a floating-point value of n halves: truncation toward zero
TruncHalves(n) == IF n >= 0 THEN n \div 2 ELSE -((-n) \div 2)

\* fmt's %v of a floating-point value of n halves
FormatFloat(n) ==
    IF n % 2 = 0 THEN ToString(TruncHalves(n))
    ELSE IF n < 0 THEN "-" \o ToString((-n) \div 2) \o ".5"
    ELSE ToString(n \div 2) \o ".5"

\* c[name]: the zero value nil for a name the map does not hold
ClaimAt(c, name) == IF name \in DOMAIN c THEN c[name] ELSE NilVal

EmptyClaims == [n \in {} |-> NilVal]

\* fmt.Sprintf("%v", v) for the values that reach the default branches
Sprint(v) ==
    CASE v.t = "num" -> ToString(v.n)
      [] v.t \in IntKinds -> ToString(v.n)
      [] v.t \in FloatKinds -> FormatFloat(v.n)
      [] v.t = "bool" -> (IF v.n = 1 THEN "true" ELSE "false")
      [] v.t = "str" -> v.s
      [] v.t = "stringer" -> v.s
      [] v.t = "nil" -> "<nil>"
      [] OTHER -> "[]"

stringify(value) ==
    IF value.t = "nil" THEN ""
    ELSE CASE value.t = "str" -> value.s
           [] value.t = "stringer" -> value.s
           [] OTHER -> Sprint(value)

ClaimsString(c, name) == stringify(ClaimAt(c, name))

\* (a Strings that turns a []interface{} into one text)
ClaimsStringsFlat(c, name) ==
    IF name \notin DOMAIN c THEN <<>>
    ELSE LET s == c[name]
         IN CASE s.t = "strslice" -> s.l
              [] s.t = "str" -> <<s.s>>
              [] OTHER -> <<stringify(s)>>

ClaimsStrings(c, name) ==
    IF name \notin DOMAIN c THEN <<>>
    ELSE LET s == c[name]
         IN CASE s.t = "strslice" -> s.l
              [] s.t = "str" -> <<s.s>>
              [] s.t = "slice" -> [i \in 1..Len(s.l) |-> stringify(s.l[i])]
              [] OTHER -> <<stringify(s)>>

\* The characters of the texts that claims hold in the model
Texts == {"", "true", "True", "te", "Tre", "truee", "f", "Fal", "0", "7", "42", "-7", "+7",
          "07", "4x", "4.5", "-", "t", "tue", "ture", "xtrue", "10", "1"}
TextChars ==
    ("" :> <<>>) @@ ("true" :> <<"t", "r", "u", "e">>) @@ ("True" :> <<"T", "r", "u", "e">>)
    @@ ("te" :> <<"t", "e">>) @@ ("Tre" :> <<"T", "r", "e">>)
    @@ ("truee" :> <<"t", "r", "u", "e", "e">>)
    @@ ("f" :> <<"f">>) @@ ("Fal" :> <<"F", "a", "l">>)
    @@ ("0" :> <<"0">>) @@ ("7" :> <<"7">>) @@ ("42" :> <<"4", "2">>)
    @@ ("-7" :> <<"-", "7">>) @@ ("+7" :> <<"+", "7">>) @@ ("07" :> <<"0", "7">>)
    @@ ("4x" :> <<"4", "x">>) @@ ("4.5" :> <<"4", ".", "5">>) @@ ("-" :> <<"-">>)
    @@ ("t" :> <<"t">>) @@ ("tue" :> <<"t", "u", "e">>) @@ ("ture" :> <<"t", "u", "r", "e">>)
    @@ ("xtrue" :> <<"x", "t", "r", "u", "e">>) @@ ("10" :> <<"1", "0">>) @@ ("1" :> <<"1">>)

DigitValue ==
    ("0" :> 0) @@ ("1" :> 1) @@ ("2" :> 2) @@ ("3" :> 3) @@ ("4" :> 4)
    @@ ("5" :> 5) @@ ("6" :> 6) @@ ("7" :> 7) @@ ("8" :> 8) @@ ("9" :> 9)
IsDigit(ch) == ch \in DOMAIN DigitValue

\* optional r, optional u, then e, from position i to the end of the text
TrueTail(cs, i) ==
    LET j == IF i <= Len(cs) /\ cs[i] = "r" THEN i + 1 ELSE i
        k == IF j <= Len(cs) /\ cs[j] = "u" THEN j + 1 ELSE j
    IN k = Len(cs) /\ cs[k] = "e"

\* (the pattern without its anchors: a match anywhere in the text)
trueBoolUnanchored(cs) ==
    \E a \in 1..Len(cs) : \E b \in a..Len(cs) :
        LET w == SubSeq(cs, a, b)
        IN \/ Len(w) >= 2 /\ w[1] \in {"T", "t"} /\ TrueTail(w, 2)
           \/ /\ Len(w) >= 2 /\ IsDigit(w[1]) /\ w[1] # "0"
              /\ \A i \in 2..Len(w) : IsDigit(w[i])

\* trueBool.MatchString: ^([Tt]r?u?e|[1-9][0-9]+)$
trueBool(cs) ==
    \/ Len(cs) >= 2 /\ cs[1] \in {"T", "t"} /\ TrueTail(cs, 2)
    \/ /\ Len(cs) >= 2 /\ IsDigit(cs[1]) /\ cs[1] # "0"
       /\ \A i \in 2..Len(cs) : IsDigit(cs[i])

\* the value of the digits cs[1..i]
RECURSIVE DigitsValue(_, _)
DigitsValue(cs, i) ==
    IF i = 0 THEN 0 ELSE 10 * DigitsValue(cs, i - 1) + DigitValue[cs[i]]

\* strconv.ParseInt(ts, 10, 64): an optional sign, then one or more digits
ParseInt(cs) ==
    LET signed == Len(cs) >= 1 /\ cs[1] \in {"+", "-"}
        ds == IF signed THEN SubSeq(cs, 2, Len(cs)) ELSE cs
    IN IF Len(ds) = 0 \/ \E i \in 1..Len(ds) : ~IsDigit(ds[i])
       THEN [i |-> 0, err |-> TRUE]
       ELSE [i |-> IF signed /\ cs[1] = "-" THEN -DigitsValue(ds, Len(ds))
                   ELSE DigitsValue(ds, Len(ds)),
             err |-> FALSE]

\* Claims.Bool: of the numeric cases only the last one, float32, has a body
ClaimsBool(c, name) ==
    LET s == ClaimAt(c, name)
    IN CASE s.t = "bool" -> s.n = 1
         [] s.t \in {"int64", "int32", "uint64", "uint32", "float64"} -> FALSE
         [] s.t = "float32" -> s.n # 0
         [] s.t = "str" -> trueBool(TextChars[s.s])
         [] OTHER -> FALSE

\* Claims.Int: of the numeric cases only the last one, float32, has a body
ClaimsInt(c, name) ==
    LET s == ClaimAt(c, name)
    IN CASE s.t \in {"int64", "int32", "uint64", "uint32", "float64"} -> 0
         [] s.t = "float32" -> TruncHalves(s.n)
         [] s.t = "str" ->
                LET p == ParseInt(TextChars[s.s])
                IN IF ~p.err THEN p.i ELSE 0
         [] OTHER -> 0

\* time.Unix(sec, 0) and its Unix()
TimeUnix(sec) == [sec |-> sec, nsec |-> 0]
Unix(instant) == instant.sec

ClaimsTime(c, name) == TimeUnix(ClaimsInt(c, name))
IssuedAt(c) == ClaimsTime(c, "iat")
NotBefore(c) == ClaimsTime(c, "iat")
ExpiresAt(c) == ClaimsTime(c, "iat")

-----------------------------------------------------------------------------
(* Errors: goa error classes, and plain errors raised inside the codec *)

MkErr(class, msg) == [class |-> class, msg |-> msg]
NilErr == MkErr("nil", "")
ErrUnsupported(msg) == MkErr("unsupported", msg)
ErrInvalidToken(msg) == MkErr("invalid_token", msg)
ErrAuthorizationFailed(msg, reqd) == [class |-> "authorization_failed", msg |-> msg, required |-> reqd]

-----------------------------------------------------------------------------
(* DefaultAuthorization *)

ScopesClaim == "scopes"

\* the inner loop: is r among held[i..]
RECURSIVE HeldHas(_, _, _)
HeldHas(held, r, i) ==
    IF i > Len(held) THEN FALSE
    ELSE IF held[i] = r THEN TRUE
    ELSE HeldHas(held, r, i + 1)

\* (a loop that stops after the first required scope)
RECURSIVE AuthorizeFirstOnly(_, _, _)
AuthorizeFirstOnly(reqd, held, i) ==
    IF i > Len(reqd) THEN NilErr
    ELSE IF ~HeldHas(held, reqd[i], 1)
         THEN ErrAuthorizationFailed("missing scopes", reqd)
         ELSE NilErr

\* (a loop that also fails when no scope is held)
RECURSIVE AuthorizeNeedsScopes(_, _, _)
AuthorizeNeedsScopes(reqd, held, i) ==
    IF held = <<>> THEN ErrAuthorizationFailed("missing scopes", reqd)
    ELSE IF i > Len(reqd) THEN NilErr
    ELSE IF ~HeldHas(held, reqd[i], 1)
         THEN ErrAuthorizationFailed("missing scopes", reqd)
         ELSE AuthorizeNeedsScopes(reqd, held, i + 1)

\* (a loop whose error names the scope that was not found)
RECURSIVE AuthorizeReportsMissing(_, _, _)
AuthorizeReportsMissing(reqd, held, i) ==
    IF i > Len(reqd) THEN NilErr
    ELSE IF ~HeldHas(held, reqd[i], 1)
         THEN ErrAuthorizationFailed("missing scopes", <<reqd[i]>>)
         ELSE AuthorizeReportsMissing(reqd, held, i + 1)

\* the outer loop over reqd[i..]
RECURSIVE AuthorizeFrom(_, _, _)
AuthorizeFrom(reqd, held, i) ==
    IF i > Len(reqd) THEN NilErr
    ELSE IF ~HeldHas(held, reqd[i], 1)
         THEN ErrAuthorizationFailed("missing scopes", reqd)
         ELSE AuthorizeFrom(reqd, held, i + 1)

DefaultAuthorization(reqd, claims) ==
    AuthorizeFrom(reqd, ClaimsStrings(claims, ScopesClaim), 1)

-----------------------------------------------------------------------------
(* Tokens and carriers *)

\* The text of a header is a sequence of characters: " " is a space, "." a
\* dot, "B" a character that is neither, "T" the compact serialization
\* (header.payload.signature, two dots) of the request's token.
Headers == {<<>>, <<"B", " ", "T">>, <<"B", " ">>, <<"B">>, <<"B", " ", "B", ".", "B", ".", "B">>}

\* strings.SplitN(header, " ", 2): the index of the first space, 0 if none
FirstSpace(header) ==
    IF \E i \in 1..Len(header) : header[i] = " "
    THEN CHOOSE i \in 1..Len(header) :
            header[i] = " " /\ \A j \in 1..(i - 1) : header[j] # " "
    ELSE 0

\* (a split at every space that keeps the last piece)
extractTokenLastWord(header) ==
    LET spaces == {i \in 1..Len(header) : header[i] = " "}
    IN IF spaces = {} THEN header
       ELSE SubSeq(header, (CHOOSE i \in spaces : \A j \in spaces : j <= i) + 1, Len(header))

extractToken(header) ==
    LET p == FirstSpace(header)
    IN IF p = 0 THEN header ELSE SubSeq(header, p + 1, Len(header))

\* What a token's serialization holds.
\*   shape:  "ok"; "b64" a segment that does not decode; "alg" a header whose
\*           alg names no registered signing method
\*   signer: the key that produced the signature, NoKey for a signature that
\*           verifies under no key (a tampered token)
\*   claims: the JSON object of the payload
IssValues == {NilVal, Str("alice"), Num(42)}
ReadScope == Slice(<<Str("read")>>)
ScopeValues == {NilVal, ReadScope}
\* <<iat, nbf, exp>> as clock readings; 0 stands for a claim that is left out
ValidTimes == <<Now - 1, Now - 1, Now + 1>>
TokenTimes == {<<0, 0, 0>>, ValidTimes, <<Now, Now, Now>>, <<Now - 1, Now - 1, Now - 1>>,
               <<Now, Now + 1, Now + 1>>, <<Now + 1, Now, Now + 1>>}

Entry(name, v) == IF v = NilVal THEN EmptyClaims ELSE (name :> v)
TimeEntry(name, t) == IF t = 0 THEN EmptyClaims ELSE (name :> Num(t))

MkClaims(iss, scopes, tt) ==
    ("sub" :> Str("bob")) @@ Entry("iss", iss) @@ Entry(ScopesClaim, scopes)
        @@ TimeEntry("iat", tt[1]) @@ TimeEntry("nbf", tt[2]) @@ TimeEntry("exp", tt[3])

MkToken(shape, signer, claims) == [shape |-> shape, signer |-> signer, claims |-> claims]

\* The tokens presented: every signer and issuer inside the time window, every
\* time window and scope for one signer, and the malformed tokens.
FirstSecret == MkKey("bytes", 1)
Tokens ==
    {MkToken("ok", k, MkClaims(i, ReadScope, ValidTimes)) :
        k \in SigningKeys \cup {NoKey}, i \in IssValues}
    \cup
    {MkToken("ok", FirstSecret, MkClaims(Str("alice"), sc, tt)) :
        sc \in ScopeValues, tt \in TokenTimes}
    \cup
    {MkToken(sh, FirstSecret, MkClaims(i, ReadScope, ValidTimes)) :
        sh \in {"b64", "alg"}, i \in IssValues}

\* the *jwt.Token the codec hands back; present = FALSE is a nil pointer
NoToken == [present |-> FALSE, ctype |-> "nil", claims |-> EmptyClaims, valid |-> FALSE]
ParsedToken(ctype, claims, valid) ==
    [present |-> TRUE, ctype |-> ctype, claims |-> claims, valid |-> valid]

-----------------------------------------------------------------------------
(* identifyIssuer *)

identifyIssuer(token) ==
    IF ~token.present \/ token.ctype = "nil" THEN [iss |-> "", err |-> NilErr]
    ELSE CASE token.ctype = "StandardClaims" ->
                [iss |-> ClaimAt(token.claims, "iss").s, err |-> NilErr]
           [] token.ctype = "MapClaims" ->
                LET iss == ClaimAt(token.claims, "iss")
                IN IF iss.t = "nil" THEN [iss |-> "", err |-> NilErr]
                   ELSE CASE iss.t = "str" -> [iss |-> iss.s, err |-> NilErr]
                          [] iss.t = "stringer" -> [iss |-> iss.s, err |-> NilErr]
                          [] OTHER -> [iss |-> "", err |-> NilErr]
           [] OTHER -> [iss |-> "", err |-> ErrUnsupported("unsupported jwt.Claims")]

-----------------------------------------------------------------------------
(* The codec: jwt.Parse(tok, keyFunc) as parseToken calls it *)

Range(f) == {f[i] : i \in DOMAIN f}

\* the number of dot-separated segments of a token text
Segments(text) ==
    1 + Cardinality({i \in 1..Len(text) : text[i] = "."})
      + 2 * Cardinality({i \in 1..Len(text) : text[i] = "T"})

\* (a key function that looks every token up under the empty issuer)
KeyFuncIgnoresIssuer(token, al, m) ==
    LET key == KeystoreGet(al, m, "")
    IN IF key = NoKey
       THEN [key |-> NoKey, err |-> ErrInvalidToken("untrusted"), asked |-> <<"">>]
       ELSE [key |-> key, err |-> NilErr, asked |-> <<"">>]

\* the key function parseToken hands to jwt.Parse
\* its answer, given what identifyIssuer returned (id) and what store.Get
\* returned for that issuer (key)
KeyFuncAnswer(id, key) ==
    IF id.err # NilErr
    THEN [key |-> NoKey, err |-> id.err, asked |-> <<>>]
    ELSE IF key = NoKey
    THEN [key |-> NoKey, err |-> ErrInvalidToken("untrusted"), asked |-> <<id.iss>>]
    ELSE [key |-> key, err |-> NilErr, asked |-> <<id.iss>>]

KeyFuncLookup(id, al, m) == KeyFuncAnswer(id, KeystoreGet(al, m, id.iss))

KeyFunc(token, al, m) == KeyFuncLookup(identifyIssuer(token), al, m)

\* SigningMethod.Verify: the signature made by signer checks under key
Verifies(signer, key) ==
    CASE signer.form = "bytes" -> key.form = "bytes" /\ key.mat = signer.mat
      [] signer.form = "rsaPriv" -> key.form = "rsaPub" /\ key.mat = signer.mat
      [] signer.form = "ecPriv" -> key.form = "ecPub" /\ key.mat = signer.mat
      [] OTHER -> FALSE

\* (a codec that does not look at the time claims)
ClaimsNeverExpire(claims, t) ==
    NilErr

\* MapClaims.Valid at clock time t: a claim that is left out always passes
ClaimsValidErr(claims, t) ==
    LET exp == ClaimAt(claims, "exp").n
        iat == ClaimAt(claims, "iat").n
        nbf == ClaimAt(claims, "nbf").n
    IN IF nbf # 0 /\ t < nbf THEN MkErr("error", "Token is not valid yet")
       ELSE IF iat # 0 /\ t < iat THEN MkErr("error", "Token used before issued")
       ELSE IF exp # 0 /\ t > exp THEN MkErr("error", "Token is expired")
       ELSE NilErr

\* The result of jwt.Parse: the token, whether the error is a
\* *jwt.ValidationError (ve), the error's Inner, and the issuers it asked the
\* keystore for.  A ValidationError built by NewValidationError (wrong segment
\* count, unavailable alg) has no Inner.
ParseResult(token, ve, inner, asked) ==
    [token |-> token, ve |-> ve, inner |-> inner, asked |-> asked]

\* the codec from the key function's answer (kf) on: the signature check,
\* then the claims' time validity (cerr); ctype is the dynamic type of the
\* Claims value the payload was decoded into
jwtVerify(ctype, jwt, kf, cerr) ==
    IF kf.err # NilErr
    THEN ParseResult(ParsedToken(ctype, jwt.claims, FALSE), TRUE, kf.err, kf.asked)
    ELSE IF ~Verifies(jwt.signer, kf.key)
    THEN ParseResult(ParsedToken(ctype, jwt.claims, FALSE), TRUE,
                     MkErr("error", "signature is invalid"), kf.asked)
    ELSE IF cerr # NilErr
    THEN ParseResult(ParsedToken(ctype, jwt.claims, FALSE), TRUE, cerr, kf.asked)
    ELSE ParseResult(ParsedToken(ctype, jwt.claims, TRUE), FALSE, NilErr, kf.asked)

jwtParse(text, jwt, al, m, t) ==
    IF Segments(text) # 3
    THEN ParseResult(NoToken, TRUE, NilErr, <<>>)
    ELSE IF text # <<"T">> \/ jwt.shape = "b64"
    THEN ParseResult(ParsedToken("nil", EmptyClaims, FALSE), TRUE,
                     MkErr("error", "illegal base64 data"), <<>>)
    ELSE IF jwt.shape = "alg"
    THEN ParseResult(ParsedToken("MapClaims", jwt.claims, FALSE), TRUE, NilErr, <<>>)
    ELSE jwtVerify("MapClaims", jwt,
                   KeyFunc(ParsedToken("MapClaims", jwt.claims, FALSE), al, m),
                   ClaimsValidErr(jwt.claims, t))

-----------------------------------------------------------------------------
(* parseToken *)

LocHeader == "header"
Locations == {"header", "query"}

TokenResult(token, err, asked) == [token |-> token, err |-> err, asked |-> asked]

\* (a parseToken that rejects a request without a token)
parseTokenRequiresToken(schemeIn, al, m, header, jwt, t) ==
    IF schemeIn # LocHeader
    THEN TokenResult(NoToken, ErrUnsupported("unexpected goa.JWTSecurity.In"), <<>>)
    ELSE LET tok == extractToken(header)
         IN IF tok = <<>>
            THEN TokenResult(NoToken, ErrInvalidToken("missing token"), <<>>)
            ELSE LET p == jwtParse(tok, jwt, al, m, t)
                     err == IF p.ve THEN p.inner ELSE NilErr
                 IN IF err # NilErr
                    THEN TokenResult(p.token, ErrInvalidToken(err.msg), p.asked)
                    ELSE TokenResult(p.token, NilErr, p.asked)

\* (a parseToken that looks at the header before it checks the location)
parseTokenExtractsFirst(schemeIn, al, m, header, jwt, t) ==
    LET tok == extractToken(header)
    IN IF tok = <<>>
       THEN TokenResult(NoToken, NilErr, <<>>)
       ELSE IF schemeIn # LocHeader
       THEN TokenResult(NoToken, ErrUnsupported("unexpected goa.JWTSecurity.In"), <<>>)
       ELSE LET p == jwtParse(tok, jwt, al, m, t)
                err == IF p.ve THEN p.inner ELSE NilErr
            IN IF err # NilErr
               THEN TokenResult(p.token, ErrInvalidToken(err.msg), p.asked)
               ELSE TokenResult(p.token, NilErr, p.asked)

\* parseToken from the codec's answer (p) on: a ValidationError is replaced by
\* its Inner, and an error that remains is wrapped as ErrInvalidToken
parseTokenRewrap(p, err) ==
    IF err # NilErr
    THEN TokenResult(p.token, ErrInvalidToken(err.msg), p.asked)
    ELSE TokenResult(p.token, NilErr, p.asked)

parseTokenParsed(p) == parseTokenRewrap(p, IF p.ve THEN p.inner ELSE NilErr)

\* parseToken from the extracted text (tok) on
parseTokenText(tok, al, m, jwt, t) ==
    IF tok = <<>>
    THEN TokenResult(NoToken, NilErr, <<>>)
    ELSE parseTokenParsed(jwtParse(tok, jwt, al, m, t))

parseToken(schemeIn, al, m, header, jwt, t) ==
    IF schemeIn # LocHeader
    THEN TokenResult(NoToken, ErrUnsupported("unexpected goa.JWTSecurity.In"), <<>>)
    ELSE parseTokenText(extractToken(header), al, m, jwt, t)

-----------------------------------------------------------------------------
(* The handler New returns *)

\* what one request did: the error returned, the calls made in order, the
\* Claims put in the context, and the issuers looked up in the keystore
Response(err, events, stored, claims, asked) ==
    [err |-> err, events |-> events, stored |-> stored, claims |-> claims, asked |-> asked]

\* (a handler chain that runs the downstream handler although authorization failed)
MiddlewareRunsHandlerAnyway(schemeIn, al, m, header, jwt, reqd, t) ==
    LET pt == parseToken(schemeIn, al, m, header, jwt, t)
    IN IF pt.err # NilErr
       THEN Response(pt.err, <<"parseToken">>, FALSE, EmptyClaims, pt.asked)
       ELSE LET claims == IF pt.token.present THEN pt.token.claims ELSE EmptyClaims
                err == DefaultAuthorization(reqd, claims)
            IN Response(err, <<"parseToken", "WithClaims", "Authorization", "nextHandler">>,
                        TRUE, claims, pt.asked)

\* the fields New copies out of a *jwt.StandardClaims
StandardFields(c) ==
    [n \in {"aud", "id", "iss", "sub", "iat", "nbf", "exp"} |->
        IF n \in {"iat", "nbf", "exp"}
        THEN TypedNum("int64", ClaimAt(c, n).n)
        ELSE Str(ClaimAt(c, n).s)]

\* the handler once the authorization function has answered (err)
MiddlewareAuthorized(err, claims, asked) ==
    IF err = NilErr
    THEN Response(NilErr, <<"parseToken", "WithClaims", "Authorization", "nextHandler">>,
                  TRUE, claims, asked)
    ELSE Response(err, <<"parseToken", "WithClaims", "Authorization">>, TRUE, claims, asked)

\* the handler once the Claims are built
MiddlewareClaims(claims, reqd, asked) ==
    MiddlewareAuthorized(DefaultAuthorization(reqd, claims), claims, asked)

\* the handler from parseToken's answer (pt) on
MiddlewareToken(pt, reqd) ==
    IF pt.err # NilErr
    THEN Response(pt.err, <<"parseToken">>, FALSE, EmptyClaims, pt.asked)
    ELSE IF ~pt.token.present
    THEN MiddlewareClaims(EmptyClaims, reqd, pt.asked)
    ELSE IF pt.token.ctype = "StandardClaims"
    THEN MiddlewareClaims(StandardFields(pt.token.claims), reqd, pt.asked)
    ELSE IF pt.token.ctype = "MapClaims"
    THEN MiddlewareClaims(pt.token.claims, reqd, pt.asked)
    ELSE Response(ErrInvalidToken("unsupported jwt.Claims"), <<"parseToken">>,
                  FALSE, EmptyClaims, pt.asked)

Middleware(schemeIn, al, m, header, jwt, reqd, t) ==
    MiddlewareToken(parseToken(schemeIn, al, m, header, jwt, t), reqd)

-----------------------------------------------------------------------------
(* The state machine: keystore calls and requests, each as one atomic call *)

Idle == [op |-> "none"]
NoProcs == [p \in {} |-> Idle]
Unlocked == [writer |-> FALSE, readers |-> 0]

Init ==
    /\ alloc = FALSE
    /\ keys = EmptyMap
    /\ last = Idle
    /\ az = Idle
    /\ lock = Unlocked
    /\ sk = NoSimple
    /\ procs = NoProcs

Trust(issuer, key) ==
    LET r == TrustResult(keys, issuer, key)
    IN /\ alloc' = TRUE
       /\ keys' = r.keys
       /\ last' = [op |-> "Trust", issuer |-> issuer, key |-> key, err |-> r.err,
                   before |-> KeystoreGet(alloc, keys, issuer)]
       /\ UNCHANGED <<az, lock, procs, sk>>

RevokeTrust(issuer) ==
    /\ keys' = RevokeResult(alloc, keys, issuer)
    /\ last' = [op |-> "RevokeTrust", issuer |-> issuer,
                before |-> KeystoreGet(alloc, keys, issuer)]
    /\ UNCHANGED <<alloc, az, lock, procs, sk>>

Get(issuer) ==
    /\ last' = [op |-> "Get", issuer |-> issuer, ret |-> KeystoreGet(alloc, keys, issuer)]
    /\ UNCHANGED <<alloc, keys, az, lock, procs, sk>>

ReqdScopes == {<<>>, <<"read">>}
HasToken(header) == "T" \in Range(header)
AnyToken == MkToken("ok", NoKey, MkClaims(NilVal, NilVal, <<0, 0, 0>>))

Request(schemeIn, header, jwt, reqd) ==
    /\ last' = [op |-> "Request", schemeIn |-> schemeIn, header |-> header, jwt |-> jwt,
                reqd |-> reqd,
                res |-> Middleware(schemeIn, alloc, keys, header, jwt, reqd, Now)]
    /\ UNCHANGED <<alloc, keys, az, lock, procs, sk>>

Next ==
    \/ \E i \in TrustIssuers, k \in AnyKeys : Trust(i, k)
    \/ \E i \in TrustIssuers : RevokeTrust(i)
    \/ \E i \in Issuers : Get(i)
    \/ \E s \in Locations, h \in Headers, r \in ReqdScopes :
         \E j \in (IF HasToken(h) THEN Tokens ELSE {AnyToken}) : Request(s, h, j, r)

Spec == Init /\ [][Next]_vars

-----------------------------------------------------------------------------
(* DefaultAuthorization as a function of its inputs *)

MaxScopes == 2      \* the longest scopes claim
MaxReqd == 2        \* the longest list of required scopes

ScopeNames == {"read", "Read", "write", "42", ""}
ScopeElems == {Str("read"), Str("Read"), Str("write"), Num(42), NilVal}

SeqsUpTo(S, n) == UNION {[1..k -> S] : k \in 0..n}

\* the Claims values given to authorization: no scopes claim, or one of any shape
AuthzClaims ==
    {EmptyClaims, "sub" :> Str("bob")}
    \cup {ScopesClaim :> v : v \in {NilVal, Str("read"), Str("Read"), Num(42), Stringer("read")}}
    \cup {ScopesClaim :> StrSlice(l) : l \in SeqsUpTo({"read", "Read", "write"}, MaxScopes)}
    \cup {ScopesClaim :> Slice(l) : l \in SeqsUpTo(ScopeElems, MaxScopes)}

InitAuthz ==
    /\ alloc = FALSE
    /\ keys = EmptyMap
    /\ last = Idle
    /\ az \in [op : {"call"}, claims : AuthzClaims, reqd : SeqsUpTo(ScopeNames, MaxReqd)]
    /\ lock = Unlocked
    /\ sk = NoSimple
    /\ procs = NoProcs

Authorize ==
    /\ az.op = "call"
    /\ az' = [op |-> "return", claims |-> az.claims, reqd |-> az.reqd,
              err |-> DefaultAuthorization(az.reqd, az.claims)]
    /\ UNCHANGED <<alloc, keys, last, lock, procs, sk>>

NextAuthz == Authorize

SpecAuthz == InitAuthz /\ [][NextAuthz]_vars

-----------------------------------------------------------------------------
(* NamedKeystore under concurrent callers: every statement is a step and    *)
(* the embedded sync.RWMutex orders the steps                               *)

NProcs == 2         \* goroutines calling the keystore at the same time

ProcIds == 1..NProcs
ConcIssuers == {"alice"}
ConcKeys == {MkKey("string", 1), MkKey("bytes", 2), MkKey("rsaPriv", 1), MkKey("int", 1)}

\* a goroutine: the call it runs, where it is, its locals and its result
MkProc(op, issuer, key, pc, err, ret, seen) ==
    [op |-> op, issuer |-> issuer, key |-> key, pc |-> pc, err |-> err, ret |-> ret, seen |-> seen]
IdleProc == MkProc("none", "", NoKey, "idle", "nil", NoKey, {})

\* (a read lock that does not wait for the writer)
CanRLockAlways(l) == TRUE

\* (a write lock that waits for nobody)
CanLockAlways(l) == TRUE

\* RWMutex: RLock waits while a writer holds the lock, Lock waits for everyone
CanRLock(l) == ~l.writer
CanLock(l) == ~l.writer /\ l.readers = 0

IsWriter(pr) == pr.op \in {"Trust", "RevokeTrust"}
\* between Lock() returning and the deferred Unlock()
InMutation(pr) == IsWriter(pr) /\ pr.pc \in {"init", "compare", "convert", "store", "delete", "unlock"}
\* between RLock() returning and the deferred RUnlock()
InGet(pr) == pr.op = "Get" /\ pr.pc \in {"read", "runlock"}

\* the values Get(issuer) takes are added to what the callers of Get in progress may see
Observe(ps, issuer, v) ==
    [q \in DOMAIN ps |->
        IF ps[q].op = "Get" /\ ps[q].issuer = issuer /\ ps[q].pc \in {"rlock", "read"}
        THEN [ps[q] EXCEPT !.seen = @ \cup {v}]
        ELSE ps[q]]

InitConc ==
    /\ alloc = FALSE
    /\ keys = EmptyMap
    /\ last = Idle
    /\ az = Idle
    /\ lock = Unlocked
    /\ sk = NoSimple
    /\ procs = [p \in ProcIds |-> IdleProc]

CallTrust(p, issuer, key) ==
    /\ procs[p].pc = "idle"
    /\ procs' = [procs EXCEPT ![p] = MkProc("Trust", issuer, key, "lock", "nil", NoKey, {})]
    /\ UNCHANGED <<alloc, keys, last, az, lock, sk>>

CallRevokeTrust(p, issuer) ==
    /\ procs[p].pc = "idle"
    /\ procs' = [procs EXCEPT ![p] = MkProc("RevokeTrust", issuer, NoKey, "lock", "nil", NoKey, {})]
    /\ UNCHANGED <<alloc, keys, last, az, lock, sk>>

CallGet(p, issuer) ==
    /\ procs[p].pc = "idle"
    /\ procs' = [procs EXCEPT ![p] = MkProc("Get", issuer, NoKey, "rlock", "nil", NoKey,
                                            {KeystoreGet(alloc, keys, issuer)})]
    /\ UNCHANGED <<alloc, keys, last, az, lock, sk>>

\* nk.Lock() of Trust and RevokeTrust
WriterLock(p) ==
    /\ IsWriter(procs[p]) /\ procs[p].pc = "lock"
    /\ CanLock(lock)
    /\ lock' = [lock EXCEPT !.writer = TRUE]
    /\ procs' = [procs EXCEPT ![p].pc = IF procs[p].op = "Trust" THEN "init" ELSE "delete"]
    /\ UNCHANGED <<alloc, keys, last, az, sk>>

\* if nk.keys == nil { nk.keys = map[string]Key{} }
TrustInit(p) ==
    /\ procs[p].op = "Trust" /\ procs[p].pc = "init"
    /\ alloc' = TRUE
    /\ procs' = [procs EXCEPT ![p].pc = "compare"]
    /\ UNCHANGED <<keys, last, az, lock, sk>>

\* the conflict check on the caller's key
TrustCompare(p) ==
    /\ procs[p].op = "Trust" /\ procs[p].pc = "compare"
    /\ procs' = [procs EXCEPT ![p] =
            IF TrustConflict(keys, @.issuer, @.key)
            THEN [@ EXCEPT !.err = "conflict", !.pc = "unlock"]
            ELSE [@ EXCEPT !.pc = "convert"]]
    /\ UNCHANGED <<alloc, keys, last, az, lock, sk>>

\* private keys become public, strings become bytes
TrustConvert(p) ==
    /\ procs[p].op = "Trust" /\ procs[p].pc = "convert"
    /\ procs' = [procs EXCEPT ![p] = [@ EXCEPT !.key = Convert(procs[p].key), !.pc = "store"]]
    /\ UNCHANGED <<alloc, keys, last, az, lock, sk>>

\* nk.keys[issuer] = kt, or the unsupported-type error
TrustStore(p) ==
    /\ procs[p].op = "Trust" /\ procs[p].pc = "store"
    /\ IF procs[p].key.form \in StoredForms
       THEN /\ keys' = MapPut(keys, procs[p].issuer, procs[p].key)
            /\ procs' = Observe([procs EXCEPT ![p].pc = "unlock"], procs[p].issuer, procs[p].key)
       ELSE /\ keys' = keys
            /\ procs' = [procs EXCEPT ![p] = [@ EXCEPT !.err = "unsupported", !.pc = "unlock"]]
    /\ UNCHANGED <<alloc, last, az, lock, sk>>

\* if nk.keys == nil { return }; delete(nk.keys, issuer)
RevokeDelete(p) ==
    /\ procs[p].op = "RevokeTrust" /\ procs[p].pc = "delete"
    /\ keys' = RevokeResult(alloc, keys, procs[p].issuer)
    /\ procs' = Observe([procs EXCEPT ![p].pc = "unlock"], procs[p].issuer, NoKey)
    /\ UNCHANGED <<alloc, last, az, lock, sk>>

\* the deferred nk.Unlock()
WriterUnlock(p) ==
    /\ IsWriter(procs[p]) /\ procs[p].pc = "unlock"
    /\ lock' = [lock EXCEPT !.writer = FALSE]
    /\ procs' = [procs EXCEPT ![p].pc = "done"]
    /\ UNCHANGED <<alloc, keys, last, az, sk>>

\* nk.RLock()
GetRLock(p) ==
    /\ procs[p].op = "Get" /\ procs[p].pc = "rlock"
    /\ CanRLock(lock)
    /\ lock' = [lock EXCEPT !.readers = @ + 1]
    /\ procs' = [procs EXCEPT ![p].pc = "read"]
    /\ UNCHANGED <<alloc, keys, last, az, sk>>

\* What the read of nk.keys[issuer] can yield.  A read that runs while another
\* goroutine is inside a mutation is a data race: it may yield the old entry,
\* the new one, or the key as the writer holds it at that moment.
ReadOutcomes(p) ==
    LET racing == {q \in ProcIds : q # p /\ InMutation(procs[q])}
    IN {KeystoreGet(alloc, keys, procs[p].issuer)}
         \cup {procs[q].key : q \in racing} \cup {NoKey : q \in racing}

GetRead(p) ==
    /\ procs[p].op = "Get" /\ procs[p].pc = "read"
    /\ \E v \in ReadOutcomes(p) :
         procs' = [procs EXCEPT ![p] = [@ EXCEPT !.ret = v, !.pc = "runlock"]]
    /\ UNCHANGED <<alloc, keys, last, az, lock, sk>>

\* the deferred nk.RUnlock()
GetRUnlock(p) ==
    /\ procs[p].op = "Get" /\ procs[p].pc = "runlock"
    /\ lock' = [lock EXCEPT !.readers = @ - 1]
    /\ procs' = [procs EXCEPT ![p].pc = "done"]
    /\ UNCHANGED <<alloc, keys, last, az, sk>>

\* the call returns to its caller, which may call again
Return(p) ==
    /\ procs[p].pc = "done"
    /\ procs' = [procs EXCEPT ![p] = IdleProc]
    /\ UNCHANGED <<alloc, keys, last, az, lock, sk>>

NextConc ==
    \E p \in ProcIds :
        \/ \E i \in ConcIssuers, k \in ConcKeys : CallTrust(p, i, k)
        \/ \E i \in ConcIssuers : CallRevokeTrust(p, i)
        \/ \E i \in ConcIssuers : CallGet(p, i)
        \/ WriterLock(p)
        \/ TrustInit(p)
        \/ TrustCompare(p)
        \/ TrustConvert(p)
        \/ TrustStore(p)
        \/ RevokeDelete(p)
        \/ WriterUnlock(p)
        \/ GetRLock(p)
        \/ GetRead(p)
        \/ GetRUnlock(p)
        \/ Return(p)

SpecConc == InitConc /\ [][NextConc]_vars

-----------------------------------------------------------------------------
(* Keystores built directly or by Load, and the calls on a SimpleKeystore *)

\* the keys argument of Load when it is a map[string]interface{}
LoadMaps == UNION {[S -> LoadKeys] : S \in SUBSET TrustIssuers}

\* for k, v := range tk { ks.Trust(k, loadKey(v)) } on the issuers left in todo
RECURSIVE LoadNamed(_, _, _)
LoadNamed(mp, todo, st) ==
    IF todo = {} \/ st.panic THEN st
    ELSE LET k == CHOOSE i \in todo : TRUE
             lk == loadKey(mp[k])
         IN IF lk.panic THEN [alloc |-> st.alloc, keys |-> st.keys, panic |-> TRUE]
            ELSE LoadNamed(mp, todo \ {k},
                           [alloc |-> TRUE, keys |-> TrustResult(st.keys, k, lk.key).keys,
                            panic |-> FALSE])

NothingBuilt == ~sk.built /\ ~alloc

InitSimple ==
    /\ alloc = FALSE
    /\ keys = EmptyMap
    /\ last = Idle
    /\ az = Idle
    /\ lock = Unlocked
    /\ procs = NoProcs
    /\ sk = NoSimple

\* store := &SimpleKeystore{Key: key}
NewSimple(key) ==
    /\ NothingBuilt
    /\ sk' = SimpleKeystore(key)
    /\ last' = [op |-> "NewSimple", key |-> key]
    /\ UNCHANGED <<alloc, keys, az, lock, procs>>

\* Load(keys) with a single key
LoadSingle(key) ==
    /\ NothingBuilt
    /\ LET lk == loadKey(key)
       IN /\ sk' = IF lk.panic THEN sk ELSE SimpleKeystore(lk.key)
          /\ last' = [op |-> "Load", key |-> key, panic |-> lk.panic]
    /\ UNCHANGED <<alloc, keys, az, lock, procs>>

\* Load(keys) with a map of named keys
LoadMap(mp) ==
    /\ NothingBuilt
    /\ LET r == LoadNamed(mp, DOMAIN mp, [alloc |-> FALSE, keys |-> EmptyMap, panic |-> FALSE])
       IN /\ alloc' = IF r.panic THEN alloc ELSE r.alloc
          /\ keys' = IF r.panic THEN keys ELSE r.keys
          /\ last' = [op |-> "LoadMap", named |-> mp, panic |-> r.panic]
    /\ UNCHANGED <<az, lock, procs, sk>>

\* (a Trust that replaces the key of the store)
SimpleTrustAdopts(issuer, key) ==
    /\ sk.built
    /\ sk' = SimpleKeystore(key)
    /\ last' = [op |-> "SimpleTrust", issuer |-> issuer, key |-> key,
                err |-> SimpleTrustErr(sk.Key, key)]
    /\ UNCHANGED <<alloc, keys, az, lock, procs>>

SimpleTrust(issuer, key) ==
    /\ sk.built
    /\ last' = [op |-> "SimpleTrust", issuer |-> issuer, key |-> key,
                err |-> SimpleTrustErr(sk.Key, key)]
    /\ UNCHANGED <<alloc, keys, az, lock, procs, sk>>

SimpleRevokeTrust(issuer) ==
    /\ sk.built
    /\ last' = [op |-> "SimpleRevokeTrust", issuer |-> issuer]
    /\ UNCHANGED <<alloc, keys, az, lock, procs, sk>>

SimpleGet(issuer) ==
    /\ sk.built
    /\ last' = [op |-> "SimpleGet", issuer |-> issuer, ret |-> SimpleGetKey(sk, issuer)]
    /\ UNCHANGED <<alloc, keys, az, lock, procs, sk>>

NextSimple ==
    \/ \E k \in AnyKeys : NewSimple(k)
    \/ \E k \in LoadKeys : LoadSingle(k)
    \/ \E mp \in LoadMaps : LoadMap(mp)
    \/ \E i \in Issuers, k \in AnyKeys : SimpleTrust(i, k)
    \/ \E i \in Issuers : SimpleRevokeTrust(i)
    \/ \E i \in Issuers : SimpleGet(i)
    \/ \E i \in Issuers : Get(i)

SpecSimple == InitSimple /\ [][NextSimple]_vars

-----------------------------------------------------------------------------
(* The Claims accessors as functions of the Claims value *)

MaxNum == 2         \* the largest magnitude of the numeric claims

SignedKinds == {"int", "int32", "int64"}
UnsignedKinds == {"uint", "uint32", "uint64"}

\* the values a claim named "foo" holds
FooValues ==
    {NilVal, BoolVal(TRUE), BoolVal(FALSE), Num(42), Stringer("42"), StrSlice(<<"7">>)}
    \cup {TypedNum(k, n) : k \in SignedKinds, n \in (-MaxNum)..MaxNum}
    \cup {TypedNum(k, n) : k \in UnsignedKinds, n \in 0..MaxNum}
    \cup {TypedNum(k, n) : k \in FloatKinds, n \in (-(2 * MaxNum + 1))..(2 * MaxNum + 1)}
    \cup {Str(s) : s \in Texts}
    \cup {Slice(l) : l \in SeqsUpTo(ScopeElems, MaxScopes)}
    \cup {StrSlice(l) : l \in SeqsUpTo({"read", "Read", "write"}, MaxScopes)}

\* the values of the time claims: left out, or epoch seconds of several types
TimeClaimValues ==
    {NilVal, TypedNum("int64", MaxNum), TypedNum("float64", 2), Str("42")}
    \cup {TypedNum("float32", 2 * n) : n \in 0..MaxNum}

AccessorClaims ==
    {EmptyClaims}
    \cup {"foo" :> v : v \in FooValues}
    \cup {Entry("iat", i) @@ Entry("nbf", n) @@ Entry("exp", e) :
            i \in TimeClaimValues, n \in TimeClaimValues, e \in TimeClaimValues}

InitClaims ==
    /\ alloc = FALSE
    /\ keys = EmptyMap
    /\ last \in [op : {"Claims.call"}, claims : AccessorClaims]
    /\ az = Idle
    /\ lock = Unlocked
    /\ procs = NoProcs
    /\ sk = NoSimple

\* the accessors applied to the Claims value
Access ==
    /\ last.op = "Claims.call"
    /\ last' = [op |-> "Claims.return", claims |-> last.claims,
                Bool |-> ClaimsBool(last.claims, "foo"),
                Int |-> ClaimsInt(last.claims, "foo"),
                Time |-> ClaimsTime(last.claims, "foo"),
                IssuedAt |-> IssuedAt(last.claims),
                NotBefore |-> NotBefore(last.claims),
                ExpiresAt |-> ExpiresAt(last.claims),
                String |-> ClaimsString(last.claims, "foo"),
                Strings |-> ClaimsStrings(last.claims, "foo")]
    /\ UNCHANGED <<alloc, keys, az, lock, procs, sk>>

NextClaims == Access

SpecClaims == InitClaims /\ [][NextClaims]_vars

-----------------------------------------------------------------------------
(* Properties *)

IsRequest == last.op = "Request"
BearerToken == <<"B", " ", "T">>
\* the request presented the token last.jwt in a supported location
PresentsToken == IsRequest /\ last.schemeIn = LocHeader /\ last.header = BearerToken
LastParse == jwtParse(extractToken(last.header), last.jwt, alloc, keys, Now)
LastToken == parseToken(last.schemeIn, alloc, keys, last.header, last.jwt, Now)

\* C1: whenever the codec reports an error for a non-empty extracted token,
\* parseToken returns an error of kind InvalidToken.
C1_CodecErrorIsInvalidToken ==
    (IsRequest /\ last.schemeIn = LocHeader /\ extractToken(last.header) # <<>> /\ LastParse.ve)
        => LastToken.err.class = "invalid_token"

\* C2: with a NamedKeystore, a token whose claimed issuer has no entry in the
\* keystore fails with kind InvalidToken, whatever key signed it.
C2_UnknownIssuerIsInvalidToken ==
    (PresentsToken /\ last.jwt.shape \in {"ok", "alg"}
        /\ ClaimAt(last.jwt.claims, "iss").t = "str"
        /\ KeystoreGet(alloc, keys, ClaimAt(last.jwt.claims, "iss").s) = NoKey)
        => last.res.err.class = "invalid_token"

\* the public or secret key that checks the signatures made with signer
VerifyingKey(signer) ==
    CASE signer.form = "rsaPriv" -> MkKey("rsaPub", signer.mat)
      [] signer.form = "ecPriv" -> MkKey("ecPub", signer.mat)
      [] OTHER -> signer

\* every time claim the token carries admits the clock reading t
InWindow(claims, t) ==
    /\ "iat" \in DOMAIN claims => claims["iat"].n <= t
    /\ "nbf" \in DOMAIN claims => claims["nbf"].n <= t
    /\ "exp" \in DOMAIN claims => t <= claims["exp"].n

\* the keystore trusts the token's textual issuer with the key that signed it
TrustedAndTimely ==
    /\ PresentsToken /\ last.jwt.shape = "ok"
    /\ ClaimAt(last.jwt.claims, "iss").t = "str"
    /\ last.jwt.signer # NoKey
    /\ KeystoreGet(alloc, keys, ClaimAt(last.jwt.claims, "iss").s) = VerifyingKey(last.jwt.signer)
    /\ InWindow(last.jwt.claims, Now)

\* C3: a token signed with k and carrying issuer i, presented while the keystore
\* holds Trust(i, k) and inside its time window, is accepted, and the Claims
\* handed downstream are exactly the token's name/value pairs.
C3_TrustedTokenAccepted ==
    TrustedAndTimely =>
        /\ LastToken.err = NilErr
        /\ last.res.err.class \in {"nil", "authorization_failed"}
        /\ last.res.stored
        /\ last.res.claims = last.jwt.claims

C3_Witness ==
    /\ TrustedAndTimely
    /\ last.jwt.signer.form = "rsaPriv"
    /\ last.res.err = NilErr
    /\ last.res.events = <<"parseToken", "WithClaims", "Authorization", "nextHandler">>

\* C4: after Trust(i, k1) has succeeded, Trust(i, k2) with a different key fails
\* with a conflict and Get(i) still returns k1; after RevokeTrust(i),
\* Trust(i, k2) succeeds and Get(i) returns k2 (keys in their stored form).
C4_ConflictUntilRevoked ==
    [][ /\ (/\ last.op = "Trust" /\ last.err = "nil" /\ last'.op = "Trust"
            /\ last'.issuer = last.issuer /\ last'.key \in SupportedKeys
            /\ VerifyingKey(Convert(last'.key)) # VerifyingKey(Convert(last.key)))
           => (/\ last'.err = "conflict"
               /\ KeystoreGet(alloc', keys', last.issuer) = KeystoreGet(alloc, keys, last.issuer)
               /\ KeystoreGet(alloc', keys', last.issuer) = VerifyingKey(Convert(last.key)))
        /\ (/\ last.op = "RevokeTrust" /\ last'.op = "Trust"
            /\ last'.issuer = last.issuer /\ last'.key \in SupportedKeys)
           => (/\ last'.err = "nil"
               /\ KeystoreGet(alloc', keys', last.issuer) = VerifyingKey(Convert(last'.key)))
      ]_vars

C4_Witness ==
    /\ last.op = "Trust" /\ last.err = "conflict"
    /\ last.key.form = last.before.form /\ last.key.mat # last.before.mat
    /\ KeystoreGet(alloc, keys, last.issuer) = last.before

\* C5: Trust is idempotent for every accepted key form: if Trust(i, k) succeeds,
\* an immediately following Trust(i, k) also succeeds and leaves Get(i) unchanged.
C5_TrustIdempotent ==
    [][ (/\ last.op = "Trust" /\ last.err = "nil" /\ last'.op = "Trust"
         /\ last'.issuer = last.issuer /\ last'.key = last.key)
        => (/\ last'.err = "nil"
            /\ KeystoreGet(alloc', keys', last.issuer) = KeystoreGet(alloc, keys, last.issuer))
      ]_vars

\* C7: DefaultAuthorization returns nil if and only if every required scope
\* equals some element of Claims.Strings("scopes"); otherwise it returns an
\* error of kind AuthorizationFailed.
C7_AuthorizedIffAllHeld ==
    az.op = "return" =>
        LET held == ClaimsStrings(az.claims, ScopesClaim)
            allHeld == \A i \in 1..Len(az.reqd) : \E j \in 1..Len(held) : held[j] = az.reqd[i]
        IN /\ (az.err = NilErr) <=> allHeld
           /\ ~allHeld => az.err.class = "authorization_failed"

C7_Witness ==
    /\ az.op = "return"
    /\ Len(az.reqd) = MaxReqd /\ az.reqd[1] # az.reqd[MaxReqd]
    /\ az.err = NilErr

\* C8: with an empty carrier parseToken returns no token and no error, the
\* keystore is not consulted, and the middleware stores zero-length Claims in
\* the context before it runs authorization.
C8_EmptyCarrierIsAnonymous ==
    (IsRequest /\ last.schemeIn = LocHeader /\ last.header = <<>>) =>
        /\ LastToken = TokenResult(NoToken, NilErr, <<>>)
        /\ last.res.asked = <<>>
        /\ last.res.stored /\ last.res.claims = EmptyClaims
        /\ SubSeq(last.res.events, 1, 3) = <<"parseToken", "WithClaims", "Authorization">>
        /\ last.res.err.class \in {"nil", "authorization_failed"}

C8_Witness ==
    /\ IsRequest /\ last.schemeIn = LocHeader /\ last.header = <<>>
    /\ DOMAIN keys # {}
    /\ last.res.err = NilErr
    /\ last.res.events = <<"parseToken", "WithClaims", "Authorization", "nextHandler">>

\* C9: when the scheme names a location other than the header, every request
\* fails with kind Unsupported, before token extraction and key lookup.
C9_UnsupportedLocation ==
    (IsRequest /\ last.schemeIn # LocHeader) =>
        /\ last.res.err.class = "unsupported"
        /\ last.res.asked = <<>>
        /\ last.res.events = <<"parseToken">>
        /\ ~last.res.stored

C9_Witness ==
    /\ IsRequest /\ last.schemeIn # LocHeader
    /\ last.header = BearerToken /\ last.jwt.shape = "ok" /\ last.jwt.signer # NoKey
    /\ KeystoreGet(alloc, keys, ClaimsString(last.jwt.claims, "iss")) = VerifyingKey(last.jwt.signer)
    /\ last.res.err.class = "unsupported"

\* C10: identifyIssuer returns the string Claims.String("iss") returns for the
\* token's claims, and that string is the issuer passed to Keystore.Get.
C10_IssuerIsClaimsString ==
    (PresentsToken /\ last.jwt.shape = "ok") =>
        /\ identifyIssuer(ParsedToken("MapClaims", last.jwt.claims, FALSE)).iss
              = ClaimsString(last.jwt.claims, "iss")
        /\ last.res.asked = <<ClaimsString(last.jwt.claims, "iss")>>

\* C6: a Get that runs concurrently with Trust or RevokeTrust returns the value
\* the issuer had before or after the concurrent write, never a partially
\* stored or un-normalized key; no reader is inside Get while a writer is
\* inside the mutation.
C6_ReadersSeeWholeWrites ==
    /\ \A p \in DOMAIN procs :
         (procs[p].op = "Get" /\ procs[p].pc \in {"runlock", "done"}) =>
            /\ procs[p].ret \in procs[p].seen
            /\ procs[p].ret.form \in StoredForms \cup {"absent"}
    /\ ~(\E p, q \in DOMAIN procs : InGet(procs[p]) /\ InMutation(procs[q]))

\* a Get that was called on the zero-value store, waited for the first Trust
\* and returned the key it stored
C6_Witness ==
    \E p \in DOMAIN procs :
        /\ procs[p].op = "Get" /\ procs[p].pc = "done"
        /\ procs[p].seen = {NoKey, MkKey("bytes", 1)}
        /\ procs[p].ret = MkKey("bytes", 1)

\* the request presents a well-formed token whose issuer the keystore trusts
\* with the key that signed it
TrustedSigner ==
    /\ PresentsToken /\ last.jwt.shape = "ok"
    /\ ClaimAt(last.jwt.claims, "iss").t = "str"
    /\ last.jwt.signer # NoKey
    /\ KeystoreGet(alloc, keys, ClaimAt(last.jwt.claims, "iss").s) = VerifyingKey(last.jwt.signer)

\* C11: for a correctly signed token of a trusted issuer, verification at clock
\* time Now fails when exp is before Now, fails when nbf is after Now, and
\* succeeds when iat and nbf are at or before Now and exp is after Now.
C11_TimeWindowEnforced ==
    TrustedSigner =>
        LET c == last.jwt.claims
            has(n) == n \in DOMAIN c
        IN /\ (has("exp") /\ c["exp"].n < Now) =>
                 (last.res.err.class = "invalid_token" /\ ~last.res.stored)
           /\ (has("nbf") /\ c["nbf"].n > Now) =>
                 (last.res.err.class = "invalid_token" /\ ~last.res.stored)
           /\ (/\ has("iat") /\ c["iat"].n <= Now
               /\ has("nbf") /\ c["nbf"].n <= Now
               /\ has("exp") /\ c["exp"].n > Now) =>
                 (LastToken.err = NilErr /\ LastToken.token.valid /\ last.res.stored)

\* an expired token of a trusted issuer, correctly signed, was rejected
C11_Witness ==
    /\ TrustedSigner
    /\ {"iat", "nbf", "exp"} \subseteq DOMAIN last.jwt.claims
    /\ last.jwt.claims["exp"].n < Now
    /\ last.jwt.claims["nbf"].n <= Now
    /\ last.res.err = ErrInvalidToken("Token is expired")

\* the key the store is to hold for a key given to Trust: the same bytes, the
\* byte encoding of a string, the same public key, the public half of a private key
NormalizedKey(key) ==
    CASE key.form = "bytes" -> key
      [] key.form = "string" -> [form |-> "bytes", mat |-> key.mat]
      [] key.form = "rsaPub" -> key
      [] key.form = "ecPub" -> key
      [] key.form = "rsaPriv" -> [form |-> "rsaPub", mat |-> key.mat]
      [] key.form = "ecPriv" -> [form |-> "ecPub", mat |-> key.mat]
      [] OTHER -> NoKey

\* C12: after Trust(i, k) succeeds on an issuer with no prior entry, Get(i)
\* returns the normalized form of k.
C12_TrustStoresNormalizedKey ==
    (last.op = "Trust" /\ last.err = "nil" /\ last.before = NoKey) =>
        /\ last.key \in SupportedKeys
        /\ KeystoreGet(alloc, keys, last.issuer) = NormalizedKey(last.key)

C12_Witness ==
    /\ last.op = "Trust" /\ last.err = "nil" /\ last.before = NoKey
    /\ last.key.form = "ecPriv"
    /\ KeystoreGet(alloc, keys, last.issuer) = [form |-> "ecPub", mat |-> last.key.mat]

\* C13: Trust(i, k) with a key of an unsupported type returns the
\* unsupported-key-type error and leaves Get(j) unchanged for every issuer j,
\* whether or not i has an entry.
C13_UnsupportedKeyRejected ==
    [][ (last'.op = "Trust" /\ last'.key \in OtherKeys) =>
            /\ last'.err = "unsupported"
            /\ \A j \in Issuers :
                 KeystoreGet(alloc', keys', j) = KeystoreGet(alloc, keys, j)
      ]_vars

\* C14: RevokeTrust(i) on an issuer with no entry, and on a zero-value store,
\* changes nothing; after RevokeTrust(i) Get(i) is absent; Get on a zero-value
\* store returns absent.
C14_RevokeIsSafeNoOp ==
    [][ /\ (last'.op = "RevokeTrust" /\ KeystoreGet(alloc, keys, last'.issuer) = NoKey) =>
              (alloc' = alloc /\ keys' = keys)
        /\ last'.op = "RevokeTrust" => KeystoreGet(alloc', keys', last'.issuer) = NoKey
        /\ (last'.op = "Get" /\ ~alloc) => (last'.ret = NoKey /\ ~alloc')
      ]_vars

\* RevokeTrust was called on the zero value of the store
C14_Witness ==
    /\ last.op = "RevokeTrust" /\ ~alloc
    /\ keys = EmptyMap
    /\ KeystoreGet(alloc, keys, last.issuer) = NoKey

\* C15: the key a keystore's Get hands to the verification pipeline is a byte
\* secret, an RSA public key or an ECDSA public key (or no key), never a
\* private key or a string, for a NamedKeystore and for a SimpleKeystore
\* built directly or by Load.
C15_VerificationKeyNeverPrivate ==
    last.op \in {"Get", "SimpleGet"} => last.ret.form \in StoredForms \cup {"absent"}

\* C16: once RevokeTrust(i) has returned, a verification that starts next for a
\* token with issuer i fails as untrusted; once Trust(i, k) has returned
\* successfully, a verification that starts next for a token of i signed with
\* k and inside its time window succeeds, on the same middleware.
C16_TrustChangesTakeEffect ==
    [][ LET presents == /\ last'.op = "Request" /\ last'.schemeIn = LocHeader
                        /\ last'.header = BearerToken
                        /\ last'.jwt.shape \in {"ok", "alg"}
                        /\ ClaimAt(last'.jwt.claims, "iss") = Str(last.issuer)
        IN /\ (last.op = "RevokeTrust" /\ presents) =>
                 (last'.res.err = ErrInvalidToken("untrusted") /\ ~last'.res.stored)
           /\ (/\ last.op = "Trust" /\ last.err = "nil" /\ presents
               /\ last'.jwt.shape = "ok"
               /\ last'.jwt.signer # NoKey
               /\ VerifyingKey(last'.jwt.signer) = NormalizedKey(last.key)
               /\ InWindow(last'.jwt.claims, Now)) =>
                 (/\ last'.res.err.class \in {"nil", "authorization_failed"}
                  /\ last'.res.stored
                  /\ last'.res.claims = last'.jwt.claims)
      ]_vars

\* C17: DefaultAuthorization with an empty required-scope list returns nil for
\* every Claims value: empty Claims, Claims without a scopes claim, and Claims
\* whose scopes claim holds a value of any type, null included.
C17_NoRequiredScopesPasses ==
    (az.op = "return" /\ az.reqd = <<>>) => az.err = NilErr

\* no scope required, and a scopes claim that is null
C17_Witness ==
    /\ az.op = "return" /\ az.reqd = <<>>
    /\ az.claims = (ScopesClaim :> NilVal)
    /\ az.err = NilErr

Accessed == last.op = "Claims.return"

\* C18: IssuedAt() equals Time("iat"), NotBefore() equals Time("nbf") and
\* ExpiresAt() equals Time("exp"), for all Claims values.
C18_TimeAccessorsReadOwnClaim ==
    Accessed =>
        /\ last.IssuedAt = ClaimsTime(last.claims, "iat")
        /\ last.NotBefore = ClaimsTime(last.claims, "nbf")
        /\ last.ExpiresAt = ClaimsTime(last.claims, "exp")

\* C19: Bool returns the value itself for a boolean claim, true for every
\* nonzero and false for every zero numeric claim of every numeric type, and
\* false for an absent claim.
C19_BoolOfNumbers ==
    Accessed =>
        LET v == ClaimAt(last.claims, "foo")
        IN /\ v.t = "bool" => (last.Bool <=> v.n = 1)
           /\ v.t \in NumKinds \cup {"num"} => (last.Bool <=> v.n # 0)
           /\ "foo" \notin DOMAIN last.claims => ~last.Bool

\* C20: Int returns the value truncated to a 64-bit signed integer for every
\* numeric claim, the parsed value for a text that is a base-10 integer, and 0
\* for an unparsable text, an absent claim or an unsupported type; Time(name)
\* has Unix() = n for a claim holding the integer n.
C20_IntOfNumbers ==
    Accessed =>
        LET v == ClaimAt(last.claims, "foo")
        IN /\ v.t \in IntKinds \cup {"num"} => (last.Int = v.n /\ Unix(last.Time) = v.n)
           /\ v.t \in FloatKinds => last.Int = TruncHalves(v.n)
           /\ v.t = "str" =>
                last.Int = (IF ParseInt(TextChars[v.s]).err THEN 0
                            ELSE ParseInt(TextChars[v.s]).i)
           /\ v.t \in {"nil", "bool", "stringer", "strslice", "slice"} => last.Int = 0

\* C21: Strings returns a sequence of texts unchanged, a one-element sequence
\* for a single text, for a heterogeneous sequence a sequence of the same
\* length whose i-th element is the String conversion of the i-th element, and
\* an empty sequence for an absent claim.
C21_StringsConversions ==
    Accessed =>
        LET v == ClaimAt(last.claims, "foo")
        IN /\ "foo" \notin DOMAIN last.claims => last.Strings = <<>>
           /\ ("foo" \in DOMAIN last.claims /\ v.t = "strslice") => last.Strings = v.l
           /\ v.t = "str" => last.Strings = <<v.s>>
           /\ v.t = "slice" =>
                /\ Len(last.Strings) = Len(v.l)
                /\ \A i \in 1..Len(v.l) :
                     last.Strings[i] = ClaimsString("elem" :> v.l[i], "elem")

\* a sequence of a text and a number
C21_Witness ==
    /\ Accessed
    /\ ClaimAt(last.claims, "foo") = Slice(<<Str("read"), Num(42)>>)
    /\ last.Strings = <<"read", "42">>

\* the texts of the model that match ^([Tt]r?u?e|[1-9][0-9]+)$
MatchingTexts == {"true", "True", "te", "Tre", "tue", "42", "10"}

\* C22: Bool on a textual claim returns true exactly when the whole text
\* matches ^([Tt]r?u?e|[1-9][0-9]+)$, and false for every other text.
C22_BoolOfTexts ==
    (Accessed /\ ClaimAt(last.claims, "foo").t = "str") =>
        (last.Bool <=> ClaimAt(last.claims, "foo").s \in MatchingTexts)

C22_Witness ==
    /\ Accessed
    /\ ClaimAt(last.claims, "foo") = Str("Tre")
    /\ last.Bool

\* C23: a SimpleKeystore holds one fixed key: no Trust or RevokeTrust call,
\* successful or not, changes it, and Get(i) returns the key the store was
\* constructed with, for every issuer i.
C23_SimpleKeyIsFixed ==
    [][ /\ sk.built => sk' = sk
        /\ last'.op = "NewSimple" => sk' = SimpleKeystore(last'.key)
        /\ last'.op = "SimpleGet" => last'.ret = sk.Key
      ]_vars

\* Get for an issuer nobody named returns the byte secret of the store
C23_Witness ==
    /\ sk = SimpleKeystore(MkKey("bytes", 1))
    /\ last.op = "SimpleGet" /\ last.issuer = "42"
    /\ last.ret = MkKey("bytes", 1)

\* C24: SimpleKeystore.Trust(i, k) succeeds if and only if k is structurally
\* equal to the key the store holds, for every issuer i.
C24_SimpleTrustIffEqual ==
    last.op = "SimpleTrust" =>
        (last.err = "nil" <=> (last.key.form = sk.Key.form /\ last.key.mat = sk.Key.mat))

C24_Witness ==
    /\ last.op = "SimpleTrust" /\ last.issuer = "alice"
    /\ sk.Key.form = "bytes" /\ last.key = sk.Key
    /\ last.err = "nil"

\* two Trust calls on issuer i run one after the other on a store without entries
TrustTwice(i, k1, k2) ==
    LET r1 == TrustResult(EmptyMap, i, k1)
        r2 == TrustResult(r1.keys, i, k2)
    IN <<r1.err, r2.err, KeystoreGet(TRUE, r2.keys, i)>>

\* C25: concurrent Trust calls are linearizable: the step at which a call
\* decides (the conflict check that fails, or the store) has the result and
\* the effect of the whole Trust run alone on the map of that moment, and the
\* map does not change under a call that is inside its critical section.  For
\* every call issued: run one after the other on an issuer without entry, two
\* Trust(i, k) with the same byte secret both succeed, and of Trust(i, k1),
\* Trust(i, k2) with different keys exactly the first succeeds and Get(i)
\* returns its key.
C25_TrustLinearizable ==
    [][ /\ \A p \in DOMAIN procs :
             (procs[p].op = "Trust" /\ procs'[p] # procs[p]) =>
                /\ (procs[p].pc = "compare" /\ procs'[p].pc = "unlock") =>
                      /\ procs'[p].err = "conflict"
                      /\ TrustResult(keys, procs[p].issuer, procs[p].key)
                            = [keys |-> keys', err |-> "conflict"]
                /\ procs[p].pc = "store" =>
                      \E k0 \in ConcKeys :
                         /\ Convert(k0) = procs[p].key
                         /\ TrustResult(keys, procs[p].issuer, k0)
                               = [keys |-> keys', err |-> procs'[p].err]
        /\ \A q \in DOMAIN procs :
             (InMutation(procs[q]) /\ procs'[q] = procs[q]) =>
                (keys' = keys /\ alloc' = alloc)
        /\ \A p \in DOMAIN procs :
             (procs[p].pc = "idle" /\ procs'[p].op = "Trust") =>
                LET i == procs'[p].issuer
                    k2 == procs'[p].key
                IN /\ k2.form = "bytes" => TrustTwice(i, k2, k2) = <<"nil", "nil", k2>>
                   /\ \A k1 \in ConcKeys \cap SupportedKeys :
                        (k2 \in SupportedKeys /\ NormalizedKey(k1) # NormalizedKey(k2)) =>
                           TrustTwice(i, k1, k2) = <<"nil", "conflict", NormalizedKey(k1)>>
      ]_vars

\* one goroutine stored its byte secret and returned; the other, called with a
\* different secret, found the entry and is leaving with the conflict error
C25_Witness ==
    \E p, q \in DOMAIN procs :
        /\ p # q
        /\ procs[p].op = "Trust" /\ procs[p].pc = "done" /\ procs[p].err = "nil"
        /\ procs[p].key = MkKey("bytes", 2)
        /\ procs[q].op = "Trust" /\ procs[q].pc = "unlock" /\ procs[q].err = "conflict"
        /\ procs[q].issuer = procs[p].issuer /\ procs[q].key = MkKey("string", 1)
        /\ KeystoreGet(alloc, keys, procs[p].issuer) = MkKey("bytes", 2)

\* C26: per request the downstream handler is invoked at most once, and only
\* after token verification and then authorization returned no error; when
\* verification fails neither authorization nor the handler is invoked and no
\* claims are stored; when authorization fails the handler is not invoked; the
\* middleware returns the failing step's error.
C26_HandlerOnlyAfterBothChecks ==
    IsRequest =>
        LET ev == last.res.events
            calls(x) == Cardinality({i \in 1..Len(ev) : ev[i] = x})
            authz == DefaultAuthorization(last.reqd,
                        IF LastToken.token.present THEN LastToken.token.claims
                        ELSE EmptyClaims)
        IN /\ calls("nextHandler") <= 1
           /\ calls("nextHandler") = 1 =>
                /\ LastToken.err = NilErr /\ authz = NilErr
                /\ ev = <<"parseToken", "WithClaims", "Authorization", "nextHandler">>
                /\ last.res.err = NilErr
           /\ LastToken.err # NilErr =>
                /\ calls("Authorization") = 0 /\ calls("nextHandler") = 0
                /\ ~last.res.stored /\ last.res.claims = EmptyClaims
                /\ last.res.err = LastToken.err
           /\ (LastToken.err = NilErr /\ authz # NilErr) =>
                /\ ev = <<"parseToken", "WithClaims", "Authorization">>
                /\ last.res.err = authz

\* a verified token without the required scope: authorization ran, the handler did not
C26_Witness ==
    /\ TrustedAndTimely
    /\ LastToken.token.valid
    /\ last.reqd = <<"read">>
    /\ ScopesClaim \notin DOMAIN last.jwt.claims
    /\ last.res.err = ErrAuthorizationFailed("missing scopes", <<"read">>)
    /\ last.res.events = <<"parseToken", "WithClaims", "Authorization">>

\* C27: Get(j) changes only through a successful Trust(j, .) or a
\* RevokeTrust(j): Get calls, token verifications, failed Trust calls and calls
\* on other issuers leave it unchanged, and no entry expires.
C27_EntryChangesOnlyByItsOwnCalls ==
    [][ \A j \in Issuers :
          KeystoreGet(alloc', keys', j) # KeystoreGet(alloc, keys, j) =>
             \/ last'.op = "Trust" /\ last'.issuer = j /\ last'.err = "nil"
             \/ last'.op = "RevokeTrust" /\ last'.issuer = j
      ]_vars

\* a token of one issuer was verified while the store holds two entries
C27_Witness ==
    /\ TrustedAndTimely
    /\ last.res.err = NilErr
    /\ DOMAIN keys = TrustIssuers
    /\ keys[""] # keys["alice"]

\* C28: the error DefaultAuthorization returns on failure depends only on the
\* required scopes: it is AuthorizationFailed carrying the required list, and
\* every other Claims value that fails against the same list gets the same
\* error, whatever scopes it holds.
C28_FailureShowsOnlyRequired ==
    (az.op = "return" /\ az.err # NilErr) =>
        /\ az.err = ErrAuthorizationFailed("missing scopes", az.reqd)
        /\ \A c2 \in AuthzClaims :
              DefaultAuthorization(az.reqd, c2) # NilErr =>
                  DefaultAuthorization(az.reqd, c2) = az.err

\* a failure of a token that holds the first required scope but not the second
C28_Witness ==
    /\ az.op = "return"
    /\ az.err # NilErr
    /\ Len(az.reqd) = 2
    /\ HeldHas(ClaimsStrings(az.claims, ScopesClaim), az.reqd[1], 1)
    /\ az.reqd[1] # az.reqd[2]

-----------------------------------------------------------------------------
(* Token extraction as a function of the carrier string *)

MaxHeader == 3      \* the longest carrier string

\* "J" is a second character that is neither a space nor a dot
HeaderChars == {"B", "J", " ", "T"}
CarrierStrings == SeqsUpTo(HeaderChars, MaxHeader)

DefaultExtraction(schemeIn, header) ==
    IF schemeIn # LocHeader
    THEN [tok |-> <<>>, err |-> ErrUnsupported("unexpected goa.JWTSecurity.In")]
    ELSE LET p == FirstSpace(header)
         IN IF p = 0 THEN [tok |-> header, err |-> NilErr]
            ELSE [tok |-> SubSeq(header, p + 1, Len(header)), err |-> NilErr]

InitExtract ==
    /\ alloc = FALSE
    /\ keys = EmptyMap
    /\ last \in [op : {"header"}, schemeIn : Locations, header : CarrierStrings]
    /\ az = Idle
    /\ lock = Unlocked
    /\ sk = NoSimple
    /\ procs = NoProcs

\* the request's header value goes through extractToken inside parseToken,
\* and through DefaultExtraction
Extract ==
    /\ last.op = "header"
    /\ last' = [op |-> "extractToken", schemeIn |-> last.schemeIn, header |-> last.header,
                tok |-> extractToken(last.header),
                dflt |-> DefaultExtraction(last.schemeIn, last.header),
                res |-> parseToken(last.schemeIn, alloc, keys, last.header, AnyToken, Now)]
    /\ UNCHANGED <<alloc, keys, az, lock, procs, sk>>

NextExtract == Extract

SpecExtract == InitExtract /\ [][NextExtract]_vars

Extracted == last.op = "extractToken"

\* C29: extraction splits the carrier at its first space only: without a space
\* the whole carrier is the token, otherwise the token is everything after the
\* first space, further spaces included; "B T", "J T" and "T" all give "T"; a
\* carrier ending right after its first space gives the empty token, and
\* parseToken answers an empty token with no token and no error.
C29_SplitAtFirstSpaceOnly ==
    Extracted =>
        LET h == last.header
            n == Len(h)
        IN /\ (\A i \in 1..n : h[i] # " ") => last.tok = h
           /\ \A i \in 1..n :
                 (h[i] = " " /\ \A j \in 1..(i - 1) : h[j] # " ") =>
                     /\ Len(last.tok) = n - i
                     /\ \A k \in 1..(n - i) : last.tok[k] = h[i + k]
                     /\ (i = n => last.tok = <<>>)
           /\ h \in {<<"B", " ", "T">>, <<"J", " ", "T">>, <<"T">>} => last.tok = <<"T">>
           /\ last.schemeIn = LocHeader =>
                 /\ last.dflt = [tok |-> last.tok, err |-> NilErr]
                 /\ last.tok = <<>> => last.res = TokenResult(NoToken, NilErr, <<>>)

\* a carrier with a second space: the token keeps it
C29_Witness ==
    /\ Extracted
    /\ last.schemeIn = LocHeader
    /\ Len(last.header) = 3
    /\ last.header[1] # " "
    /\ last.header[2] = " "
    /\ last.header[3] = " "
    /\ last.tok = <<" ">>

-----------------------------------------------------------------------------
(* The pipeline over every dynamic type of token.Claims *)

\* the types identifyIssuer and New switch on, and one type neither names
RecognizedClaims == {"StandardClaims", "MapClaims"}
ClaimsTypes == RecognizedClaims \cup {"CustomClaims"}

\* the codec on a three-segment token text whose payload it decodes into a
\* Claims value of dynamic type ctype
jwtParseAs(ctype, jwt, al, m, t) ==
    IF jwt.shape = "b64"
    THEN ParseResult(ParsedToken("nil", EmptyClaims, FALSE), TRUE,
                     MkErr("error", "illegal base64 data"), <<>>)
    ELSE IF jwt.shape = "alg"
    THEN ParseResult(ParsedToken(ctype, jwt.claims, FALSE), TRUE, NilErr, <<>>)
    ELSE jwtVerify(ctype, jwt,
                   KeyFunc(ParsedToken(ctype, jwt.claims, FALSE), al, m),
                   ClaimsValidErr(jwt.claims, t))

\* the handler New returns, for a header that carries the serialization of jwt
MiddlewareAs(ctype, al, m, jwt, reqd, t) ==
    MiddlewareToken(parseTokenParsed(jwtParseAs(ctype, jwt, al, m, t)), reqd)

InitKinds ==
    /\ alloc = FALSE
    /\ keys = EmptyMap
    /\ last = Idle
    /\ az = Idle
    /\ lock = Unlocked
    /\ sk = NoSimple
    /\ procs = NoProcs

\* a request whose Authorization header carries the serialization of jwt
RequestAs(ctype, jwt, reqd) ==
    /\ last' = [op |-> "RequestAs", ctype |-> ctype, jwt |-> jwt, reqd |-> reqd,
                raised |-> identifyIssuer(ParsedToken(ctype, jwt.claims, FALSE)).err,
                res |-> MiddlewareAs(ctype, alloc, keys, jwt, reqd, Now)]
    /\ UNCHANGED <<alloc, keys, az, lock, procs, sk>>

NextKinds ==
    \/ \E i \in TrustIssuers, k \in AnyKeys : Trust(i, k)
    \/ \E i \in TrustIssuers : RevokeTrust(i)
    \/ \E c \in ClaimsTypes, j \in Tokens, r \in ReqdScopes : RequestAs(c, j, r)

SpecKinds == InitKinds /\ [][NextKinds]_vars

\* the payload was decoded into a Claims value the pipeline has no case for
UnrecognizedServed ==
    /\ last.op = "RequestAs"
    /\ last.ctype \notin RecognizedClaims
    /\ last.jwt.shape # "b64"

====
